---------------------------- MODULE Spec2Model ----------------------------
(***************************************************************************)
(* Model of streamlit_dashboard.py: the upload history kept in the         *)
(* Streamlit session state (file_history, current_file_index), the script  *)
(* passes that re-execute the file top to bottom after every interaction,  *)
(* and the complaint volume forecast of tab 3.                             *)
(*                                                                         *)
(* A script pass is modelled by its position pc:                           *)
(*   "idle"    the script has ended, the page waits for the operator       *)
(*   "submit"  lines 52-77,  file_uploader and the add-to-history block    *)
(*   "sidebar" lines 80-122, the history list and its button handlers      *)
(*   "select"  lines 126-131, the choice of the file to process            *)
(*   "process" lines 133-650, the parse inside try / except                *)
(* Python list positions are 0-based; the sequence file_history holds      *)
(* position i at file_history[i + 1].                                      *)
(*                                                                         *)
(* Lines 452-469 of the file (Duplicate Analysis) are dedented out of the  *)
(* try block they sit in; every block is modelled at the nesting its       *)
(* neighbours give it, i.e. as the script is meant to run.                 *)
(***************************************************************************)
EXTENDS Integers, Sequences, FiniteSets, TLC

VARIABLES
  file_history,        \* st.session_state.file_history
  current_file_index,  \* st.session_state.current_file_index
  uploaded_file,       \* the value st.file_uploader returns in a pass
  pressed,             \* the button whose click started the pass
  pc,                  \* position of the script pass
  now,                 \* datetime.now(), in seconds
  current_file,        \* the script local current_file
  outcome,             \* what the pass rendered below the sidebar
  lastOp,              \* history variable: the operator's last action
  cleared,             \* history variable: Clear All pressed, no upload since
  df_dates,            \* df_analysis['Call Received Date'] as a bag of months
  fpc,                 \* position of the forecast block
  monthly_data,        \* the script local monthly_data
  prediction_df,       \* the script local prediction_df
  rendered,            \* elements the forecast block rendered
  df_status,           \* df_analysis[['State', 'Call Status']], row by row
  kpc,                 \* position of the Call Status blocks
  closed,              \* rows of the frame of line 305
  pending,             \* rows of the frame of line 311
  pending_by_state,    \* the script local pending_by_state
  excel_file,          \* the sheets of the workbook pd.ExcelFile opened
  combine_option,      \* the value of the Data Source radio
  selection,           \* the value of the selectbox / multiselect of sheets
  npc,                 \* position of the sheet selection block
  df,                  \* the script local df
  selected_sheets,     \* the script local selected_sheets
  df_received,         \* df_analysis['Call Received Date'], row by row
  date_range,          \* the value st.sidebar.date_input returns
  dpc,                 \* position of the date range filter
  df_filtered,         \* rows of df_analysis after the date range filter
  df_complaint_no,     \* df_analysis['Complaint No.'], row by row
  upc,                 \* position of the duplicate analysis
  duplicates           \* rows of the script local duplicates

vars == <<file_history, current_file_index, uploaded_file, pressed, pc, now,
          current_file, outcome, lastOp, cleared,
          df_dates, fpc, monthly_data, prediction_df, rendered,
          df_status, kpc, closed, pending, pending_by_state,
          excel_file, combine_option, selection, npc, df, selected_sheets,
          df_received, date_range, dpc, df_filtered,
          df_complaint_no, upc, duplicates>>

sessionVars == <<file_history, current_file_index, uploaded_file, pressed, pc,
                 now, current_file, outcome, lastOp, cleared>>

forecastVars == <<df_dates, fpc, monthly_data, prediction_df, rendered>>

statusVars == <<df_status, kpc, closed, pending, pending_by_state>>

sheetVars == <<excel_file, combine_option, selection, npc, df, selected_sheets>>

dateVars == <<df_received, date_range, dpc, df_filtered>>

duplicateVars == <<df_complaint_no, upc, duplicates>>

\* all variables but those of one block
nonSessionVars == <<forecastVars, statusVars, sheetVars, dateVars, duplicateVars>>
nonForecastVars == <<sessionVars, statusVars, sheetVars, dateVars, duplicateVars>>
nonStatusVars == <<sessionVars, forecastVars, sheetVars, dateVars, duplicateVars>>
nonSheetVars == <<sessionVars, forecastVars, statusVars, dateVars, duplicateVars>>
nonDateVars == <<sessionVars, forecastVars, statusVars, sheetVars, duplicateVars>>
nonDuplicateVars == <<sessionVars, forecastVars, statusVars, sheetVars, dateVars>>

----------------------------------------------------------------------------
(* Values *)

\* the clock runs over 0 .. MaxNow
MaxNow == 1

\* Python's None, and an optional value holding v
None == <<>>
Some(v) == <<v>>

\* names an operator can give an uploaded workbook
Names == {"x.xlsx", "y.xlsx", "z.xlsx"}

\* contents of an uploaded file, as bytes; a content starting with 1 is a
\* workbook pd.ExcelFile can open, any other content makes it raise
Payloads == {<<1>>, <<1, 1>>, <<0>>}

\* the UploadedFile objects the widget can return: .name and the bytes
UploadedFiles == [name : Names, data : Payloads]

\* uploaded_file.size
size(f) == Len(f.data)

\* pd.ExcelFile(current_file) returns (TRUE) or raises (FALSE)
ExcelFile(f) == f.data[1] = 1

\* datetime.now().strftime("%Y-%m-%d %H:%M:%S"): one string per second
strftime(t) == t

----------------------------------------------------------------------------
(* List helpers *)

\* file_history[i] of the source
At(h, i) == h[i + 1]

\* [f['name'] for f in st.session_state.file_history]
file_names(h) == [k \in 1..Len(h) |-> h[k].name]

\* list.index(x): the first position holding x
index(names, x) == (CHOOSE k \in 1..Len(names) :
                      /\ names[k] = x
                      /\ \A j \in 1..(k - 1) : names[j] # x) - 1

\* x in list
Contains(names, x) == \E k \in 1..Len(names) : names[k] = x

\* list.pop(i)
pop(h, i) == SubSeq(h, 1, i) \o SubSeq(h, i + 2, Len(h))

\* truth value of an int-or-None in a Python condition
Truthy(c) == c # None /\ c[1] # 0

\* the name of the current entry, or "" when there is none or the index
\* is no position of the list
NameAt(h, c) == IF c # None /\ c[1] >= 0 /\ c[1] < Len(h) THEN At(h, c[1]).name ELSE ""

----------------------------------------------------------------------------
(* The buttons of the sidebar *)

NoButton == [kind |-> "none", idx |-> 0]
LoadButton(i) == [kind |-> "load", idx |-> i]
RemoveButton(i) == [kind |-> "remove", idx |-> i]
ClearButton == [kind |-> "clear", idx |-> 0]

\* the record kept in lastOp: the action, the entry or file it names, and
\* the history (names, current position and name) the operator acted on
NoOp == [kind |-> "none", name |-> "", idx |-> 0, names |-> <<>>,
         cur |-> None, prev |-> "", readable |-> TRUE]

\* is_current = (idx == st.session_state.current_file_index)
is_current(idx) == Some(idx) = current_file_index

----------------------------------------------------------------------------
(* file_info of lines 60-65 *)
file_info(f, t) ==
  [name |-> f.name, size |-> size(f), upload_time |-> strftime(t), file_obj |-> f]

\* lines 70-72: the name is new
AppendHistory(h, f, t) == Append(h, file_info(f, t))

\* a resubmission that drops the old entry and appends the new one
ReplaceHistoryMoveToEnd(h, f, t) ==
  Append(pop(h, index(file_names(h), f.name)), file_info(f, t))

\* lines 73-76: the name is in the history
ReplaceHistory(h, f, t) ==
  [h EXCEPT ![index(file_names(h), f.name) + 1] = file_info(f, t)]

\* line 70: uploaded_file.name not in file_names
IsNewName(h, f) == ~Contains(file_names(h), f.name)

\* the block without the name check of line 70: every upload is appended
SubmitHistoryAlwaysAppend(h, f, t) == AppendHistory(h, f, t)

\* lines 59-77, the history after the block
SubmitHistory(h, f, t) ==
  IF IsNewName(h, f) THEN AppendHistory(h, f, t) ELSE ReplaceHistory(h, f, t)

\* the block without line 72: a new name is appended but not made current
SubmitIndexKeptOnAppend(h, f) ==
  IF IsNewName(h, f) THEN current_file_index ELSE Some(index(file_names(h), f.name))

\* lines 72 and 77, current_file_index after the block
SubmitIndex(h, f) ==
  IF IsNewName(h, f) THEN Some(Len(h) + 1 - 1) ELSE Some(index(file_names(h), f.name))

----------------------------------------------------------------------------
(* Operator actions: each one makes Streamlit run the script again *)

StartPass(button) ==
  /\ pressed' = button
  /\ pc' = "submit"
  /\ current_file' = None
  /\ outcome' = "none"

\* lastOp for an action of the given kind on the present history
Op(kind, name, idx, readable) ==
  [kind |-> kind, name |-> name, idx |-> idx, names |-> file_names(file_history),
   cur |-> current_file_index,
   prev |-> NameAt(file_history, current_file_index), readable |-> readable]

\* the operator picks a file in the file_uploader widget
Upload(f) ==
  /\ pc = "idle"
  /\ uploaded_file' = Some(f)
  /\ StartPass(NoButton)
  /\ lastOp' = Op("upload", f.name, 0, ExcelFile(f))
  /\ cleared' = FALSE
  /\ UNCHANGED <<file_history, current_file_index, now>>

\* the operator removes the file from the file_uploader widget
Unload ==
  /\ pc = "idle"
  /\ uploaded_file # None
  /\ uploaded_file' = None
  /\ StartPass(NoButton)
  /\ lastOp' = Op("unload", "", 0, TRUE)
  /\ UNCHANGED <<file_history, current_file_index, now, cleared>>

\* the operator changes another widget (radio, selectbox, date input)
Interact ==
  /\ pc = "idle"
  /\ StartPass(NoButton)
  /\ lastOp' = Op("interact", "", 0, TRUE)
  /\ UNCHANGED <<file_history, current_file_index, uploaded_file, now, cleared>>

\* the operator clicks Load on entry i; line 99 renders it for the entries
\* that are not current
PressLoad(i) ==
  /\ pc = "idle"
  /\ i \in 0..(Len(file_history) - 1)
  /\ ~is_current(i)
  /\ StartPass(LoadButton(i))
  /\ lastOp' = Op("load", At(file_history, i).name, i, TRUE)
  /\ UNCHANGED <<file_history, current_file_index, uploaded_file, now, cleared>>

\* the operator clicks Delete on entry i
PressDelete(i) ==
  /\ pc = "idle"
  /\ i \in 0..(Len(file_history) - 1)
  /\ StartPass(RemoveButton(i))
  /\ lastOp' = Op("remove", At(file_history, i).name, i, TRUE)
  /\ UNCHANGED <<file_history, current_file_index, uploaded_file, now, cleared>>

\* the operator clicks Clear All History; line 82 renders it for a
\* history that is not empty
PressClear ==
  /\ pc = "idle"
  /\ Len(file_history) > 0
  /\ StartPass(ClearButton)
  /\ lastOp' = Op("clear", "", 0, TRUE)
  /\ cleared' = TRUE
  /\ UNCHANGED <<file_history, current_file_index, uploaded_file, now>>

\* a second passes while the page is idle
Tick ==
  /\ pc = "idle"
  /\ now < MaxNow
  /\ now' = now + 1
  /\ UNCHANGED <<file_history, current_file_index, uploaded_file, pressed, pc,
                 current_file, outcome, lastOp, cleared>>

----------------------------------------------------------------------------
(* The script pass *)

\* lines 52-77
SubmitBlock ==
  /\ pc = "submit"
  /\ IF uploaded_file # None
       THEN /\ file_history' = SubmitHistory(file_history, uploaded_file[1], now)
            /\ current_file_index' = SubmitIndex(file_history, uploaded_file[1])
       ELSE UNCHANGED <<file_history, current_file_index>>
  /\ pc' = "sidebar"
  /\ UNCHANGED <<uploaded_file, pressed, now, current_file, outcome, lastOp, cleared>>

\* st.rerun(): the pass is abandoned and the script starts again, with no
\* button pressed
rerun ==
  /\ pc' = "submit"
  /\ pressed' = NoButton

\* st.button(key=f"load_{idx}") returns True: rendered in this pass, and clicked
LoadClicked ==
  /\ pressed.kind = "load"
  /\ Len(file_history) > 0
  /\ pressed.idx \in 0..(Len(file_history) - 1)
  /\ ~is_current(pressed.idx)

\* st.button(key=f"remove_{idx}") returns True
RemoveClicked ==
  /\ pressed.kind = "remove"
  /\ Len(file_history) > 0
  /\ pressed.idx \in 0..(Len(file_history) - 1)

\* st.sidebar.button("Clear All History") returns True
ClearClicked ==
  /\ pressed.kind = "clear"
  /\ Len(file_history) > 0

\* Delete without the elif of lines 111-112: no shift of the index
DeleteIndexNoShift(c, idx) == IF c = Some(idx) THEN None ELSE c

\* Delete that resets the index whatever entry is removed
DeleteIndexReset(c, idx) == None

\* lines 109-112, current_file_index after pop(idx)
DeleteIndex(c, idx) ==
  IF c = Some(idx) THEN None
  ELSE IF Truthy(c) /\ c[1] > idx THEN Some(c[1] - 1)
  ELSE c

\* lines 100-102
LoadHandler ==
  /\ pc = "sidebar"
  /\ LoadClicked
  /\ current_file_index' = Some(pressed.idx)
  /\ rerun
  /\ UNCHANGED <<file_history, uploaded_file, now, current_file, outcome, lastOp, cleared>>

\* lines 107-113
DeleteHandler ==
  /\ pc = "sidebar"
  /\ RemoveClicked
  /\ file_history' = pop(file_history, pressed.idx)
  /\ current_file_index' = DeleteIndex(current_file_index, pressed.idx)
  /\ rerun
  /\ UNCHANGED <<uploaded_file, now, current_file, outcome, lastOp, cleared>>

\* lines 117-120
ClearHandler ==
  /\ pc = "sidebar"
  /\ ClearClicked
  /\ file_history' = <<>>
  /\ current_file_index' = None
  /\ rerun
  /\ UNCHANGED <<uploaded_file, now, current_file, outcome, lastOp, cleared>>

\* lines 80-122 with no button returning True
SidebarRendered ==
  /\ pc = "sidebar"
  /\ ~LoadClicked /\ ~RemoveClicked /\ ~ClearClicked
  /\ pc' = "select"
  /\ UNCHANGED <<file_history, current_file_index, uploaded_file, pressed, now,
                 current_file, outcome, lastOp, cleared>>

\* line 128
HistoryBranch == current_file_index # None /\ Len(file_history) > 0

\* line 129 raises IndexError
LookupFails ==
  HistoryBranch /\ ~(current_file_index[1] \in 0..(Len(file_history) - 1))

\* lines 127-131
SelectCurrentFile ==
  /\ pc = "select"
  /\ IF LookupFails
       THEN /\ outcome' = "IndexError"
            /\ pc' = "idle"
            /\ UNCHANGED current_file
       ELSE /\ current_file' = IF HistoryBranch
                                 THEN Some(At(file_history, current_file_index[1]).file_obj)
                                 ELSE uploaded_file
            /\ outcome' = IF HistoryBranch THEN "history"
                          ELSE IF uploaded_file # None THEN "fallback" ELSE "nofile"
            /\ pc' = "process"
  /\ UNCHANGED <<file_history, current_file_index, uploaded_file, pressed, now,
                 lastOp, cleared>>

\* lines 133-650: the dashboard, the error report of the except clause, or
\* the upload prompt of the else clause
ProcessFile ==
  /\ pc = "process"
  /\ outcome' = IF current_file = None THEN "prompt"
                ELSE IF ExcelFile(current_file[1]) THEN "dashboard"
                ELSE "error"
  /\ pc' = "idle"
  /\ UNCHANGED <<file_history, current_file_index, uploaded_file, pressed, now,
                 current_file, lastOp, cleared>>

----------------------------------------------------------------------------
SessionInit ==
  /\ file_history = <<>>
  /\ current_file_index = None
  /\ uploaded_file = None
  /\ pressed = NoButton
  /\ pc = "submit"
  /\ now = 0
  /\ current_file = None
  /\ outcome = "none"
  /\ lastOp = NoOp
  /\ cleared = FALSE

----------------------------------------------------------------------------
(* Tab 3, Complaint Volume Forecast (lines 475-505)                         *)
(*                                                                         *)
(* df_analysis enters as the bag of its Call Received Date values: count   *)
(* [m] rows dated in calendar month m, nat rows whose date is NaT, and     *)
(* present = whether the table has the column at all. The order of the     *)
(* rows plays no part in groupby(...).size().                              *)

\* calendar months are numbered 0 .. MaxMonth
MaxMonth == 3

\* a month holds 0 .. MaxCount rows, or one of the counts 10, 12, 14
MaxCount == 2

\* at most MaxNaT rows have no date
MaxNaT == 1

Months == 0..MaxMonth
Counts == (0..MaxCount) \cup {10, 12, 14}

Tables ==
  { t \in [present : BOOLEAN, count : [Months -> Counts], nat : 0..MaxNaT] :
      ~t.present => (t.nat = 0 /\ \A m \in Months : t.count[m] = 0) }

\* numbers as pandas holds them in a float column, kept exact as fractions
Frac(n, d) == [num |-> n, den |-> d]
FracAdd(a, b) == Frac(a.num * b.den + b.num * a.den, a.den * b.den)
FracEq(a, b) == a.num * b.den = b.num * a.den

\* line 478-479: groupby(dt.to_period('M')).size(), one bucket per month
\* that has rows, in period order; rows dated NaT fall in no bucket
RECURSIVE groupby_size(_, _)
groupby_size(t, m) ==
  IF m < 0 THEN <<>>
  ELSE IF t.count[m] > 0
    THEN Append(groupby_size(t, m - 1), [Month |-> m, Complaints |-> t.count[m]])
    ELSE groupby_size(t, m - 1)

\* Series.tail(3)
tail3(md) == SubSeq(md, Len(md) - 2, Len(md))

\* line 482: monthly_data.tail(3).mean()
last_3_months_avg(md) ==
  Frac(tail3(md)[1].Complaints + tail3(md)[2].Complaints + tail3(md)[3].Complaints, 3)

\* a trend taken over the last two buckets instead of the last three
trendLastTwo(md) == Frac(tail3(md)[3].Complaints - tail3(md)[2].Complaints, 2)

\* line 483: (tail(3).values[-1] - tail(3).values[0]) / 2
trend(md) == Frac(tail3(md)[3].Complaints - tail3(md)[1].Complaints, 2)

\* line 484
next_month_prediction(md) == FracAdd(last_3_months_avg(md), trend(md))

\* line 495: pd.date_range(index[-1], periods=4, freq='M')[1:], the three
\* months after the last observed one
future_months(md) ==
  [k \in 1..3 |-> md[Len(md)].Month + k]

\* lines 496-500
PredictionFrame(md) ==
  [k \in 1..Len(md) |->
     [Month |-> md[k].Month, Complaints |-> Frac(md[k].Complaints, 1), Type |-> "Actual"]]
  \o
  [k \in 1..3 |->
     [Month |-> future_months(md)[k], Complaints |-> next_month_prediction(md),
      Type |-> "Predicted"]]

\* line 481
EnoughHistory(md) == Len(md) >= 3

\* lines 475-479
GroupMonths ==
  /\ fpc = "tab3"
  /\ IF df_dates.present
       THEN /\ monthly_data' = groupby_size(df_dates, MaxMonth)
            /\ rendered' = <<"subheader">>
            /\ fpc' = "guard"
       ELSE /\ fpc' = "done"
            /\ UNCHANGED <<monthly_data, rendered>>
  /\ UNCHANGED <<df_dates, prediction_df>>

\* lines 481-505, the branch taken
Forecast ==
  /\ fpc = "guard"
  /\ EnoughHistory(monthly_data)
  /\ prediction_df' = Some(PredictionFrame(monthly_data))
  /\ rendered' = rendered \o <<"metric", "metric", "metric", "plotly_chart">>
  /\ fpc' = "done"
  /\ UNCHANGED <<df_dates, monthly_data>>

\* line 481 false: the if has no else, the block renders nothing more
NoForecast ==
  /\ fpc = "guard"
  /\ ~EnoughHistory(monthly_data)
  /\ fpc' = "done"
  /\ UNCHANGED <<df_dates, monthly_data, prediction_df, rendered>>

ForecastIdle ==
  /\ df_dates = <<>>
  /\ fpc = "off"
  /\ monthly_data = <<>>
  /\ prediction_df = None
  /\ rendered = <<>>

\* the Call Status blocks have not run
StatusIdle ==
  /\ df_status = <<>>
  /\ kpc = "off"
  /\ closed = <<>>
  /\ pending = <<>>
  /\ pending_by_state = <<>>

\* no workbook has been opened
SheetIdle ==
  /\ excel_file = <<>>
  /\ combine_option = "Select Single Sheet"
  /\ selection = <<>>
  /\ npc = "off"
  /\ df = None
  /\ selected_sheets = <<>>

\* the date range filter has not run
DateIdle ==
  /\ df_received = <<>>
  /\ date_range = <<>>
  /\ dpc = "off"
  /\ df_filtered = <<>>

\* the duplicate analysis has not run
DuplicateIdle ==
  /\ df_complaint_no = <<>>
  /\ upc = "off"
  /\ duplicates = <<>>

Init == SessionInit /\ ForecastIdle /\ StatusIdle /\ SheetIdle /\ DateIdle /\ DuplicateIdle

Next ==
  \/ (\E f \in UploadedFiles : Upload(f)) /\ UNCHANGED nonSessionVars
  \/ Unload /\ UNCHANGED nonSessionVars
  \/ Interact /\ UNCHANGED nonSessionVars
  \/ (\E i \in 0..(Cardinality(Names) - 1) : PressLoad(i)) /\ UNCHANGED nonSessionVars
  \/ (\E i \in 0..(Cardinality(Names) - 1) : PressDelete(i)) /\ UNCHANGED nonSessionVars
  \/ PressClear /\ UNCHANGED nonSessionVars
  \/ Tick /\ UNCHANGED nonSessionVars
  \/ SubmitBlock /\ UNCHANGED nonSessionVars
  \/ LoadHandler /\ UNCHANGED nonSessionVars
  \/ DeleteHandler /\ UNCHANGED nonSessionVars
  \/ ClearHandler /\ UNCHANGED nonSessionVars
  \/ SidebarRendered /\ UNCHANGED nonSessionVars
  \/ SelectCurrentFile /\ UNCHANGED nonSessionVars
  \/ ProcessFile /\ UNCHANGED nonSessionVars

Spec == Init /\ [][Next]_vars

ForecastInit ==
  /\ SessionInit /\ StatusIdle /\ SheetIdle /\ DateIdle /\ DuplicateIdle
  /\ df_dates \in Tables
  /\ fpc = "tab3"
  /\ monthly_data = <<>>
  /\ prediction_df = None
  /\ rendered = <<>>

ForecastNext ==
  \/ GroupMonths /\ UNCHANGED nonForecastVars
  \/ Forecast /\ UNCHANGED nonForecastVars
  \/ NoForecast /\ UNCHANGED nonForecastVars

ForecastSpec == ForecastInit /\ [][ForecastNext]_vars

----------------------------------------------------------------------------
(* Closed / Pending by Call Status (lines 303-313 and 514-517)              *)
(*                                                                         *)
(* A text is the sequence of its characters. A cell of an object column    *)
(* is a text or NaN (an empty spreadsheet cell).                           *)

\* a table has 0 .. MaxStatusRows rows
MaxStatusRows == 2

Text(t) == [na |-> FALSE, text |-> t]
NaN == [na |-> TRUE, text |-> <<>>]

\* Call Status values found in a sheet
StatusTexts ==
  { <<"C", "l", "o", "s", "e", "d">>,
    <<"C", "L", "O", "S", "E", "D">>,
    <<"c", "l", "o", "s", "e">>,
    <<"c", "L", "o", "S", "e">>,
    <<"R", "e", "c", "l", "o", "s", "e", "d">>,
    <<"C", "l", "o", "s">>,
    <<"C", "l", "o", "s", "d">>,
    <<"C", "l", "o", "s", "i", "n", "g">>,
    <<"P", "e", "n", "d", "i", "n", "g">>,
    <<"O", "p", "e", "n">>,
    <<>> }

StatusCells == {Text(t) : t \in StatusTexts} \cup {NaN}

States == {"KA", "MH"}

StatusRows == [State : States, Call_Status : StatusCells]

RECURSIVE SeqsUpTo(_, _)
\* the sequences over S of length 0 .. n
SeqsUpTo(S, n) ==
  IF n = 0 THEN {<<>>}
  ELSE LET shorter == SeqsUpTo(S, n - 1)
       IN  shorter \cup {Append(q, x) : q \in {r \in shorter : Len(r) = n - 1}, x \in S}

\* df_analysis: whether it has the Call Status column, and its rows
StatusTables ==
  { t \in [present : BOOLEAN, rows : SeqsUpTo(StatusRows, MaxStatusRows)] :
      ~t.present => \A k \in 1..Len(t.rows) : t.rows[k].Call_Status = NaN }

\* the lower-case form of a character
lower(c) ==
  CASE c = "C" -> "c" [] c = "L" -> "l" [] c = "O" -> "o" [] c = "S" -> "s"
    [] c = "E" -> "e" [] c = "D" -> "d" [] c = "R" -> "r" [] c = "P" -> "p"
    [] OTHER -> c

\* the regular expression 'Close|Closed': two literal alternatives
ClosePattern ==
  { <<"C", "l", "o", "s", "e">>, <<"C", "l", "o", "s", "e", "d">> }

\* one literal matches the text at position i, with or without re.IGNORECASE
MatchesAt(lit, t, i, case) ==
  /\ i + Len(lit) - 1 <= Len(t)
  /\ \A k \in 1..Len(lit) :
       IF case THEN t[i + k - 1] = lit[k]
       ELSE lower(t[i + k - 1]) = lower(lit[k])

\* re.search(pat, text): some alternative matches somewhere
re_search(pat, t, case) ==
  \E lit \in pat : \E i \in 1..Len(t) : MatchesAt(lit, t, i, case)

\* Series.str.contains(pat, case=..., na=...) on one cell
str_contains(cell, pat, case, na) ==
  IF cell.na THEN na ELSE re_search(pat, cell.text, case)

\* the mask compared with case=True
IsClosedCaseSensitive(cell) == str_contains(cell, ClosePattern, TRUE, FALSE)

\* the mask of lines 305, 311 and 516:
\* str.contains('Close|Closed', case=False, na=False)
IsClosed(cell) == str_contains(cell, ClosePattern, FALSE, FALSE)

\* the members of a set of row positions, in rising order
RECURSIVE InOrder(_)
InOrder(S) ==
  IF S = {} THEN <<>>
  ELSE LET last == CHOOSE k \in S : \A j \in S : j <= k
       IN  Append(InOrder(S \ {last}), last)

\* the mask of line 305, and its negation ~ of lines 311 and 516
ClosedMask(row) == IsClosed(row.Call_Status)
PendingMask(row) == ~IsClosed(row.Call_Status)

\* frame[mask]: the positions of the rows the mask keeps, in order
KeepClosed(rows) == InOrder({k \in 1..Len(rows) : ClosedMask(rows[k])})
KeepPending(rows) == InOrder({k \in 1..Len(rows) : PendingMask(rows[k])})

\* groupby('State').size() over the rows at the positions ps
GroupSizes(rows, ps) ==
  { [State |-> st, n |-> Cardinality({k \in 1..Len(ps) : rows[ps[k]].State = st})] :
      st \in {rows[ps[k]].State : k \in 1..Len(ps)} }

\* sort_values(ascending=False): the orders of the groups by falling size;
\* groups of equal size come in either order
SortedDescending(G) ==
  { q \in SeqsUpTo(G, Cardinality(G)) :
      /\ Len(q) = Cardinality(G)
      /\ \A g \in G : \E k \in 1..Len(q) : q[k] = g
      /\ \A i, j \in 1..Len(q) : i < j => q[i].n >= q[j].n }

\* Series.head(5)
head5(q) == SubSeq(q, 1, IF Len(q) < 5 THEN Len(q) ELSE 5)

\* lines 303-307
KpiClosed ==
  /\ kpc = "closed"
  /\ IF df_status.present
       THEN closed' = KeepClosed(df_status.rows)
       ELSE UNCHANGED closed
  /\ kpc' = "pending"
  /\ UNCHANGED <<df_status, pending, pending_by_state>>

\* lines 309-313
KpiPending ==
  /\ kpc = "pending"
  /\ IF df_status.present
       THEN pending' = KeepPending(df_status.rows)
       ELSE UNCHANGED pending
  /\ kpc' = "by_state"
  /\ UNCHANGED <<df_status, closed, pending_by_state>>

\* lines 514-517
PendingByState ==
  /\ kpc = "by_state"
  /\ IF df_status.present
       THEN \E q \in SortedDescending(
                       GroupSizes(df_status.rows, KeepPending(df_status.rows))) :
              pending_by_state' = head5(q)
       ELSE UNCHANGED pending_by_state
  /\ kpc' = "done"
  /\ UNCHANGED <<df_status, closed, pending>>

StatusInit ==
  /\ SessionInit /\ ForecastIdle /\ SheetIdle /\ DateIdle /\ DuplicateIdle
  /\ df_status \in StatusTables
  /\ kpc = "closed"
  /\ closed = <<>>
  /\ pending = <<>>
  /\ pending_by_state = <<>>

StatusNext ==
  \/ KpiClosed /\ UNCHANGED nonStatusVars
  \/ KpiPending /\ UNCHANGED nonStatusVars
  \/ PendingByState /\ UNCHANGED nonStatusVars

StatusSpec == StatusInit /\ [][StatusNext]_vars

----------------------------------------------------------------------------
(* Duplicate Analysis (lines 452-469) *)

\* a table has 0 .. MaxKeyRows rows
MaxKeyRows == 3

\* Complaint No. values found in a sheet
ComplaintCells ==
  {Text(<<"C001">>), Text(<<"C002">>), Text(<<"C003">>), NaN}

\* df_analysis: whether it has the Complaint No. column, and the column
ComplaintTables ==
  { t \in [present : BOOLEAN, rows : SeqsUpTo(ComplaintCells, MaxKeyRows)] :
      ~t.present => t.rows = <<>> }

\* two cells fall in the same group of DataFrame.duplicated: equal values,
\* and any two missing values (pandas hashes NaN as one value)
SameKey(a, b) ==
  \/ a.na /\ b.na
  \/ ~a.na /\ ~b.na /\ a.text = b.text

\* DataFrame.duplicated(subset=['Complaint No.'], keep=False) at row k:
\* another row has the same key
duplicated(rows, k) ==
  \E j \in 1..Len(rows) : j # k /\ SameKey(rows[j], rows[k])

\* lines 454-466
FlagDuplicates ==
  /\ upc = "tab2"
  /\ df_complaint_no.present
  /\ duplicates' = InOrder({k \in 1..Len(df_complaint_no.rows) :
                              duplicated(df_complaint_no.rows, k)})
  /\ upc' = IF Len(duplicates') > 0 THEN "warning" ELSE "success"
  /\ UNCHANGED df_complaint_no

\* lines 468-469
NoComplaintColumn ==
  /\ upc = "tab2"
  /\ ~df_complaint_no.present
  /\ upc' = "info"
  /\ UNCHANGED <<df_complaint_no, duplicates>>

DuplicateInit ==
  /\ SessionInit /\ ForecastIdle /\ StatusIdle /\ SheetIdle /\ DateIdle
  /\ df_complaint_no \in ComplaintTables
  /\ upc = "tab2"
  /\ duplicates = <<>>

DuplicateNext ==
  \/ FlagDuplicates /\ UNCHANGED nonDuplicateVars
  \/ NoComplaintColumn /\ UNCHANGED nonDuplicateVars

DuplicateSpec == DuplicateInit /\ [][DuplicateNext]_vars

----------------------------------------------------------------------------
(* Date range filter (lines 264-279)                                       *)
(*                                                                         *)
(* A datetime is a calendar day and a time of day; time 0 is midnight. A   *)
(* date, as st.date_input returns it, is a calendar day alone.             *)

\* calendar days are numbered 0 .. MaxDay
MaxDay == 2

\* a table has 0 .. MaxDateRows rows
MaxDateRows == 2

\* times of day: midnight, and a time later in the day
TimesOfDay == {0, 1}

Timestamps == [nat : {FALSE}, day : 0..MaxDay, tod : TimesOfDay]
NaT == [nat |-> TRUE, day |-> 0, tod |-> 0]

\* df_analysis: whether it has the Call Received Date column, and the
\* column as pd.to_datetime(errors='coerce') left it
DateTables ==
  { t \in [present : BOOLEAN, rows : SeqsUpTo(Timestamps \cup {NaT}, MaxDateRows)] :
      ~t.present => t.rows = <<>> }

\* pd.Timestamp(date): midnight of that day
Timestamp(d) == [nat |-> FALSE, day |-> d, tod |-> 0]

\* a <= b on datetimes; a comparison with NaT is False
Leq(a, b) ==
  /\ ~a.nat /\ ~b.nat
  /\ \/ a.day < b.day
     \/ a.day = b.day /\ a.tod <= b.tod

\* the rows that have a date
Dated(rows) == {k \in 1..Len(rows) : ~rows[k].nat}

\* Series.min() and Series.max(), which skip NaT; NaT when no row is dated
series_min(rows) ==
  IF Dated(rows) = {} THEN NaT
  ELSE rows[CHOOSE k \in Dated(rows) : \A j \in Dated(rows) : Leq(rows[k], rows[j])]

series_max(rows) ==
  IF Dated(rows) = {} THEN NaT
  ELSE rows[CHOOSE k \in Dated(rows) : \A j \in Dated(rows) : Leq(rows[j], rows[k])]

\* the values st.sidebar.date_input can return for the bounds lo, hi
\* (min_value, max_value, taken as dates): a range of two dates inside the
\* bounds, or the start alone while the operator is still choosing
date_input(lo, hi) ==
  { r \in SeqsUpTo(lo.day..hi.day, 2) :
      /\ Len(r) >= 1
      /\ Len(r) = 2 => r[1] <= r[2] }

\* the mask of lines 277-278
InRange(ts, r) == Leq(Timestamp(r[1]), ts) /\ Leq(ts, Timestamp(r[2]))

\* line 268
HasDates(rows) == ~series_min(rows).nat /\ ~series_max(rows).nat

\* lines 265-274: the widget is shown and the operator's choice read
DateInput ==
  /\ dpc = "filter"
  /\ df_received.present /\ HasDates(df_received.rows)
  /\ date_range' \in date_input(series_min(df_received.rows),
                               series_max(df_received.rows))
  /\ dpc' = "apply"
  /\ UNCHANGED <<df_received, df_filtered>>

\* lines 265 or 268 false: no widget, no filter
NoDateInput ==
  /\ dpc = "filter"
  /\ ~(df_received.present /\ HasDates(df_received.rows))
  /\ df_filtered' = InOrder(1..Len(df_received.rows))
  /\ dpc' = "done"
  /\ UNCHANGED <<df_received, date_range>>

\* lines 275-279
ApplyDateRange ==
  /\ dpc = "apply"
  /\ Len(date_range) = 2
  /\ df_filtered' = InOrder({k \in 1..Len(df_received.rows) :
                               InRange(df_received.rows[k], date_range)})
  /\ dpc' = "done"
  /\ UNCHANGED <<df_received, date_range>>

\* line 275 false
SkipDateRange ==
  /\ dpc = "apply"
  /\ Len(date_range) # 2
  /\ df_filtered' = InOrder(1..Len(df_received.rows))
  /\ dpc' = "done"
  /\ UNCHANGED <<df_received, date_range>>

DateInit ==
  /\ SessionInit /\ ForecastIdle /\ StatusIdle /\ SheetIdle /\ DuplicateIdle
  /\ df_received \in DateTables
  /\ date_range = <<>>
  /\ dpc = "filter"
  /\ df_filtered = <<>>

DateNext ==
  \/ DateInput /\ UNCHANGED nonDateVars
  \/ NoDateInput /\ UNCHANGED nonDateVars
  \/ ApplyDateRange /\ UNCHANGED nonDateVars
  \/ SkipDateRange /\ UNCHANGED nonDateVars

DateSpec == DateInit /\ [][DateNext]_vars

----------------------------------------------------------------------------
(* Sheet selection and combine (lines 166-211)                             *)
(*                                                                         *)
(* A column name is the sequence of its parts; the part " " is white       *)
(* space. A DataFrame is its column names, in order and possibly repeated, *)
(* and its rows, each the sequence of its cells in column order. A data    *)
(* cell records the sheet, row and column it was read from.                *)

\* a workbook has 1 .. MaxSheets sheets
MaxSheets == 2

\* sheet names, in workbook order
SheetNames == <<"Jan", "Feb", "Mar", "Apr">>

\* numbers of data rows a sheet can have
SheetSizes == {0, 2}

Source_Sheet == <<"Source_Sheet">>

\* header rows found in a sheet
SheetColumns ==
  { << <<"State">> >>,
    << <<" ", "State">> >>,
    << <<"State">>, <<"Branch">> >>,
    << <<"Branch">>, <<"State", " ">> >>,
    << Source_Sheet, <<"State">> >>,
    << <<" ", "Source_Sheet">>, <<"Branch">> >> }

Sheets == [columns : SheetColumns, nrows : SheetSizes]

\* excel_file: the list of the sheets; sheet k is named SheetNames[k]
Workbooks == {w \in SeqsUpTo(Sheets, MaxSheets) : Len(w) >= 1}

\* excel_file.sheet_names
sheet_names(w) == [k \in 1..Len(w) |-> SheetNames[k]]

\* the sheet of the workbook that has the given name
SheetOf(w, name) == w[CHOOSE k \in 1..Len(w) : SheetNames[k] = name]

\* cells
DataCell(sheet, row, col) == [kind |-> "data", sheet |-> sheet, row |-> row, col |-> col]
LabelCell(sheet) == [kind |-> "label", sheet |-> sheet, row |-> 0, col |-> <<>>]
MissingCell == [kind |-> "nan", sheet |-> "", row |-> 0, col |-> <<>>]

\* pd.read_excel(excel_file, sheet_name=name)
read_excel(w, name) ==
  LET sh == SheetOf(w, name)
  IN  [columns |-> sh.columns,
       rows |-> [r \in 1..sh.nrows |->
                   [c \in 1..Len(sh.columns) |-> DataCell(name, r, sh.columns[c])]]]

\* temp_df[col] = value: the column of that exact name is overwritten, or
\* a new last column is added
set_column(frame, col, value) ==
  IF Contains(frame.columns, col)
    THEN [frame EXCEPT !.rows =
            [r \in 1..Len(frame.rows) |->
               [c \in 1..Len(frame.columns) |->
                  IF frame.columns[c] = col THEN value ELSE frame.rows[r][c]]]]
    ELSE [columns |-> Append(frame.columns, col),
          rows |-> [r \in 1..Len(frame.rows) |-> Append(frame.rows[r], value)]]

\* a sheet read without its label
temp_dfUnlabelled(w, name) == read_excel(w, name)

\* lines 180-181 and 200-201 for one sheet
temp_df(w, name) == set_column(read_excel(w, name), Source_Sheet, LabelCell(name))

\* the union of two lists of column names, in order of first appearance
RECURSIVE union_columns(_, _)
union_columns(a, b) ==
  IF b = <<>> THEN a
  ELSE union_columns(IF Contains(a, Head(b)) THEN a ELSE Append(a, Head(b)), Tail(b))

\* the rows of a frame laid out on the columns cols; a column the frame
\* lacks gives a missing cell
reindex(frame, cols) ==
  [r \in 1..Len(frame.rows) |->
     [c \in 1..Len(cols) |->
        IF Contains(frame.columns, cols[c])
          THEN frame.rows[r][index(frame.columns, cols[c]) + 1]
          ELSE MissingCell]]

\* pd.concat(all_dfs, ignore_index=True, sort=False) over the frames of the
\* sheets named in names
RECURSIVE concat(_, _)
concat(w, names) ==
  IF Len(names) = 1 THEN temp_df(w, names[1])
  ELSE LET n     == Len(names)
           front == concat(w, SubSeq(names, 1, n - 1))
           last  == temp_df(w, names[n])
           cols  == union_columns(front.columns, last.columns)
       IN  [columns |-> cols,
            rows |-> reindex(front, cols) \o reindex(last, cols)]

\* str.strip() on a column name
RECURSIVE lstrip(_)
lstrip(name) ==
  IF name # <<>> /\ Head(name) = " " THEN lstrip(Tail(name)) ELSE name

RECURSIVE rstrip(_)
rstrip(name) ==
  IF name # <<>> /\ name[Len(name)] = " "
    THEN rstrip(SubSeq(name, 1, Len(name) - 1)) ELSE name

strip(name) == rstrip(lstrip(name))

\* the lists of distinct sheet names st.sidebar.multiselect can return, in
\* the order the operator picked them
Multiselect(w) ==
  { q \in SeqsUpTo({SheetNames[k] : k \in 1..Len(w)}, Len(w)) :
      \A i, j \in 1..Len(q) : i # j => q[i] # q[j] }

\* the radio and the selectbox / multiselect under it
Choices(w) ==
  {[option |-> "Select Single Sheet", selection |-> <<SheetNames[k]>>] : k \in 1..Len(w)}
  \cup {[option |-> "Combine All Sheets", selection |-> <<>>]}
  \cup {[option |-> "Select Multiple Sheets", selection |-> q] : q \in Multiselect(w)}

\* lines 169-173
SelectSingleSheet ==
  /\ npc = "select"
  /\ combine_option = "Select Single Sheet"
  /\ df' = Some(read_excel(excel_file, selection[1]))
  /\ selected_sheets' = <<selection[1]>>
  /\ npc' = "clean"
  /\ UNCHANGED <<excel_file, combine_option, selection>>

\* lines 175-186
CombineAllSheets ==
  /\ npc = "select"
  /\ combine_option = "Combine All Sheets"
  /\ df' = Some(concat(excel_file, sheet_names(excel_file)))
  /\ selected_sheets' = sheet_names(excel_file)
  /\ npc' = "clean"
  /\ UNCHANGED <<excel_file, combine_option, selection>>

\* lines 188-205
CombineSelectedSheets ==
  /\ npc = "select"
  /\ combine_option = "Select Multiple Sheets"
  /\ selection # <<>>
  /\ selected_sheets' = selection
  /\ df' = Some(concat(excel_file, selection))
  /\ npc' = "clean"
  /\ UNCHANGED <<excel_file, combine_option, selection>>

\* lines 206-208: st.stop()
EmptySelection ==
  /\ npc = "select"
  /\ combine_option = "Select Multiple Sheets"
  /\ selection = <<>>
  /\ selected_sheets' = selection
  /\ npc' = "stopped"
  /\ UNCHANGED <<excel_file, combine_option, selection, df>>

\* the columns after df.columns.str.strip()
stripped(cols) == [c \in 1..Len(cols) |-> strip(cols[c])]

\* lines 210-211
CleanColumnNames ==
  /\ npc = "clean"
  /\ df' = Some([df[1] EXCEPT !.columns = stripped(df[1].columns)])
  /\ npc' = "done"
  /\ UNCHANGED <<excel_file, combine_option, selection, selected_sheets>>

SheetInit ==
  /\ SessionInit /\ ForecastIdle /\ StatusIdle /\ DateIdle /\ DuplicateIdle
  /\ excel_file \in Workbooks
  /\ \E ch \in Choices(excel_file) :
       /\ combine_option = ch.option
       /\ selection = ch.selection
  /\ npc = "select"
  /\ df = None
  /\ selected_sheets = <<>>

SheetNext ==
  \/ SelectSingleSheet /\ UNCHANGED nonSheetVars
  \/ CombineAllSheets /\ UNCHANGED nonSheetVars
  \/ CombineSelectedSheets /\ UNCHANGED nonSheetVars
  \/ EmptySelection /\ UNCHANGED nonSheetVars
  \/ CleanColumnNames /\ UNCHANGED nonSheetVars

SheetSpec == SheetInit /\ [][SheetNext]_vars

----------------------------------------------------------------------------
(* Properties of the upload history (specification Spec) *)

NoDuplicateNames ==
  \A i, j \in 1..Len(file_history) :
    i # j => file_history[i].name # file_history[j].name

ResubmitKeepsCount ==
  [][(/\ pc = "submit"
      /\ uploaded_file # None
      /\ Contains(file_names(file_history), uploaded_file[1].name))
     => Len(file_history') = Len(file_history)]_vars

\* C1: in every reachable state no two entries of the upload history have
\* the same name, and a submit of a name that is already in the history
\* leaves the number of entries unchanged.
C1_UniqueNames == []NoDuplicateNames /\ ResubmitKeepsCount

\* a name of a two-entry history has been submitted again
C1_Witness ==
  /\ pc = "sidebar"
  /\ lastOp.kind = "upload"
  /\ Len(lastOp.names) = 2
  /\ Contains(lastOp.names, lastOp.name)
  /\ Len(file_history) = 2

\* C2: in every reachable state current_file_index is None or a position
\* 0 <= current_file_index < len(file_history), it is None whenever the
\* history is empty, and the lookup of line 129 never raises IndexError.
C2_IndexInBounds ==
  /\ \/ current_file_index = None
     \/ current_file_index[1] \in 0..(Len(file_history) - 1)
  /\ Len(file_history) = 0 => current_file_index = None
  /\ ~(pc = "select" /\ LookupFails)
  /\ outcome # "IndexError"

\* an entry before the current one was deleted and the next pass looked the
\* current entry up in the history
C2_Witness ==
  /\ pc = "process"
  /\ outcome = "history"
  /\ lastOp.kind = "remove"
  /\ lastOp.cur # None
  /\ lastOp.idx < lastOp.cur[1]

DeleteKeepsCurrent ==
  [][(/\ pc = "sidebar"
      /\ RemoveClicked
      /\ ~is_current(pressed.idx))
     => /\ NameAt(file_history', current_file_index')
             = NameAt(file_history, current_file_index)
        /\ current_file_index # None =>
             IF pressed.idx > current_file_index[1]
               THEN current_file_index' = current_file_index
               ELSE current_file_index' = Some(current_file_index[1] - 1)]_vars

DeleteKeepsCurrentWhenIdle ==
  (/\ pc = "idle"
   /\ lastOp.kind = "remove"
   /\ lastOp.cur # Some(lastOp.idx))
  => NameAt(file_history, current_file_index) = lastOp.prev

\* C3: Delete of an entry i other than the current one leaves the current
\* entry the same by name: the index is unchanged when i was after it and
\* one less when i was before it, also once the next pass has ended.
C3_DeleteKeepsCurrent == DeleteKeepsCurrent /\ []DeleteKeepsCurrentWhenIdle

\* the scenario [x.xlsx, y.xlsx], current = 1, remove(0)
C3_Witness ==
  /\ pc = "idle"
  /\ lastOp.kind = "remove"
  /\ lastOp.names = <<"x.xlsx", "y.xlsx">>
  /\ lastOp.cur = Some(1)
  /\ lastOp.idx = 0
  /\ file_names(file_history) = <<"y.xlsx">>
  /\ current_file_index = Some(0)

\* the entry a submit of f at time t writes
SubmittedEntry(f, t) ==
  [name |-> f.name, size |-> Len(f.data), upload_time |-> t, file_obj |-> f]

\* C4: a submit of a new name appends one entry at the end and makes it
\* current; a submit of a name in the history replaces that entry at its
\* position and makes it current; every other entry keeps its fields and
\* its place.
C4_SubmitAppendsOrReplaces ==
  [][(pc = "submit" /\ uploaded_file # None) =>
       LET f == uploaded_file[1]
           h == file_history
           g == file_history'
           n == Len(file_history)
       IN  IF \A k \in 1..n : h[k].name # f.name
             THEN /\ Len(g) = n + 1
                  /\ \A k \in 1..n : g[k] = h[k]
                  /\ g[n + 1] = SubmittedEntry(f, now)
                  /\ current_file_index' = Some(n)
             ELSE \E k \in 1..n :
                    /\ h[k].name = f.name
                    /\ Len(g) = n
                    /\ g[k] = SubmittedEntry(f, now)
                    /\ \A j \in 1..n : j # k => g[j] = h[j]
                    /\ current_file_index' = Some(k - 1)]_vars

\* x.xlsx, the first of two entries, has been submitted again with another
\* content, a second later
C4_Witness ==
  /\ pc = "sidebar"
  /\ lastOp.kind = "upload"
  /\ lastOp.name = "x.xlsx"
  /\ lastOp.names = <<"x.xlsx", "y.xlsx">>
  /\ file_names(file_history) = <<"x.xlsx", "y.xlsx">>
  /\ current_file_index = Some(0)
  /\ At(file_history, 0).upload_time = 1
  /\ At(file_history, 0).size = 2
  /\ At(file_history, 1).upload_time = 0

\* C5: once the pass started by Load on a non-current entry has ended, the
\* current entry is the entry Load was pressed on and it is the file the
\* pass processed, whatever the file_uploader widget holds.
C5_LoadSetsCurrent ==
  (pc = "idle" /\ lastOp.kind = "load") =>
    /\ NameAt(file_history, current_file_index) = lastOp.name
    /\ current_file # None
    /\ current_file[1].name = lastOp.name

\* C6: once the pass started by Delete on the current entry has ended, the
\* name of that entry is not in the history, the other entries have moved
\* down by one, current is None and no file is processed, whatever the
\* file_uploader widget holds.
C6_DeleteCurrent ==
  (pc = "idle" /\ lastOp.kind = "remove" /\ lastOp.cur = Some(lastOp.idx)) =>
    /\ ~Contains(file_names(file_history), lastOp.name)
    /\ file_names(file_history) = pop(lastOp.names, lastOp.idx)
    /\ current_file_index = None
    /\ current_file = None

\* C7: once the pass started by Clear All History has ended, the history
\* is empty and current is None, and they stay so until the operator
\* submits a new upload, whatever the file_uploader widget holds.
C7_ClearEmpties ==
  (pc = "idle" /\ cleared) =>
    /\ file_history = <<>>
    /\ current_file_index = None

\* C8: when a submitted upload cannot be parsed, the failure is caught and
\* reported and the entry that was current before the submission is still
\* the current one.
C8_FailedUploadKeepsCurrent ==
  (pc = "idle" /\ lastOp.kind = "upload" /\ ~lastOp.readable /\ lastOp.prev # "") =>
    /\ outcome = "error"
    /\ NameAt(file_history, current_file_index) = lastOp.prev

----------------------------------------------------------------------------
(* Properties of the forecast (specification ForecastSpec) *)

\* the months of df_dates that have rows
Observed == {m \in Months : df_dates.count[m] > 0}

\* the k-th month of Observed, counted from the earliest
KthObserved(k) == CHOOSE m \in Observed : Cardinality({b \in Observed : b <= m}) = k

\* the k-th month of Observed, counted from the latest
KthLast(k) == CHOOSE m \in Observed : Cardinality({b \in Observed : b >= m}) = k

\* C9: with at least 3 observed buckets whose last three counts are c1, c2,
\* c3, the output is the observed series flagged Actual followed by exactly
\* three Predicted points of value (c1+c2+c3)/3 + (c3-c1)/2.
C9_ForecastRule ==
  (fpc = "done" /\ df_dates.present /\ Cardinality(Observed) >= 3) =>
    LET n  == Cardinality(Observed)
        c1 == df_dates.count[KthLast(3)]
        c2 == df_dates.count[KthLast(2)]
        c3 == df_dates.count[KthLast(1)]
    IN  /\ prediction_df # None
        /\ Len(prediction_df[1]) = n + 3
        /\ \A k \in 1..n :
             /\ prediction_df[1][k].Type = "Actual"
             /\ prediction_df[1][k].Month = KthObserved(k)
             /\ FracEq(prediction_df[1][k].Complaints,
                       Frac(df_dates.count[KthObserved(k)], 1))
        /\ \A k \in 1..3 :
             /\ prediction_df[1][n + k].Type = "Predicted"
             /\ prediction_df[1][n + k].Month = KthLast(1) + k
             /\ FracEq(prediction_df[1][n + k].Complaints,
                       Frac(2 * (c1 + c2 + c3) + 3 * (c3 - c1), 6))

\* counts 10, 12, 14 in three consecutive months give three points of 14
C9_Witness ==
  /\ fpc = "done"
  /\ df_dates.count[0] = 10 /\ df_dates.count[1] = 12
  /\ df_dates.count[2] = 14 /\ df_dates.count[3] = 0
  /\ prediction_df # None
  /\ Len(prediction_df[1]) = 6
  /\ \A k \in 4..6 : /\ prediction_df[1][k].Type = "Predicted"
                     /\ FracEq(prediction_df[1][k].Complaints, Frac(14, 1))

\* C10: with fewer than 3 monthly buckets the forecast block adds no
\* predicted point, gives the observed monthly series unchanged and an
\* explicit notice that no forecast is available, and raises no error.
C10_InsufficientHistory ==
  (fpc = "done" /\ df_dates.present /\ Cardinality(Observed) < 3) =>
    /\ prediction_df # None
    /\ Len(prediction_df[1]) = Cardinality(Observed)
    /\ \A k \in 1..Len(prediction_df[1]) :
         /\ prediction_df[1][k].Type = "Actual"
         /\ prediction_df[1][k].Month = KthObserved(k)
         /\ FracEq(prediction_df[1][k].Complaints,
                   Frac(df_dates.count[KthObserved(k)], 1))
    /\ \E k \in 1..Len(rendered) : rendered[k] \in {"info", "warning"}

----------------------------------------------------------------------------
(* The fallback branch of the current file selection (specification Spec) *)

\* C16: at the point where a pass chooses the file to process, a file held
\* by the file_uploader widget has its name in the history and
\* current_file_index points at it, so the branch of lines 130-131 that
\* processes uploaded_file directly is never taken.
C16_FallbackNeverTaken ==
  /\ (pc = "select" /\ uploaded_file # None) =>
        /\ Contains(file_names(file_history), uploaded_file[1].name)
        /\ NameAt(file_history, current_file_index) = uploaded_file[1].name
        /\ HistoryBranch
  /\ outcome # "fallback"

\* a pass with a file in the widget has chosen that file through the history
C16_Witness ==
  /\ pc = "process"
  /\ uploaded_file # None
  /\ outcome = "history"
  /\ current_file = uploaded_file
  /\ Len(file_history) = 2

----------------------------------------------------------------------------
(* Properties of the Call Status classification (specification StatusSpec) *)

\* the text has the letters c, l, o, s, e in a row, in any letter case
HasCloseAnyCase(t) ==
  \E i \in 1..(Len(t) - 4) :
    /\ t[i] \in {"c", "C"}
    /\ t[i + 1] \in {"l", "L"}
    /\ t[i + 2] \in {"o", "O"}
    /\ t[i + 3] \in {"s", "S"}
    /\ t[i + 4] \in {"e", "E"}

\* the rule of the claim for one cell
IsOpen(cell) == cell.na \/ ~HasCloseAnyCase(cell.text)

\* C11: a row is classified open (pending) exactly when its Call Status
\* text does not contain "close" in any letter case; a row whose Call
\* Status is absent is open, never closed. The same holds for the rows
\* pending_by_state counts.
C11_OpenClassification ==
  (kpc = "done" /\ df_status.present) =>
    /\ \A k \in 1..Len(df_status.rows) :
         /\ Contains(pending, k) <=> IsOpen(df_status.rows[k].Call_Status)
         /\ Contains(closed, k) <=> ~IsOpen(df_status.rows[k].Call_Status)
    /\ \A st \in States :
         LET n == Cardinality({k \in 1..Len(df_status.rows) :
                                 /\ df_status.rows[k].State = st
                                 /\ IsOpen(df_status.rows[k].Call_Status)})
         IN  IF n = 0
               THEN \A k \in 1..Len(pending_by_state) : pending_by_state[k].State # st
               ELSE \E k \in 1..Len(pending_by_state) :
                      pending_by_state[k] = [State |-> st, n |-> n]

\* a table with a CLOSED row and a row without status has been classified
C11_Witness ==
  /\ kpc = "done"
  /\ df_status.present
  /\ Len(df_status.rows) = 2
  /\ df_status.rows[1].Call_Status = Text(<<"C", "L", "O", "S", "E", "D">>)
  /\ df_status.rows[2].Call_Status = NaN
  /\ closed = <<1>>
  /\ pending = <<2>>

----------------------------------------------------------------------------
(* Properties of the duplicate analysis (specification DuplicateSpec) *)

\* the number of rows that hold the key of row k
Occurrences(rows, k) ==
  Cardinality({j \in 1..Len(rows) : ~rows[j].na /\ rows[j].text = rows[k].text})

\* C15: a row is flagged as recurring if and only if its Complaint No. is
\* not absent and occurs in more than one row of the view; a key seen once
\* and an absent key are never flagged.
C15_RecurringRows ==
  (upc \in {"warning", "success"}) =>
    \A k \in 1..Len(df_complaint_no.rows) :
      Contains(duplicates, k) <=>
        /\ ~df_complaint_no.rows[k].na
        /\ Occurrences(df_complaint_no.rows, k) > 1

----------------------------------------------------------------------------
(* Properties of the date range filter (specification DateSpec) *)

\* C14: the filter keeps exactly the rows whose date falls on a day of the
\* inclusive range [start, end] the operator chose, whatever the time of
\* day; with the default range (earliest to latest day of the view) no row
\* that has a date is dropped.
C14_InclusiveRange ==
  (dpc = "done" /\ Len(date_range) = 2) =>
    /\ \A k \in 1..Len(df_received.rows) :
         Contains(df_filtered, k) <=>
           /\ ~df_received.rows[k].nat
           /\ date_range[1] <= df_received.rows[k].day
           /\ df_received.rows[k].day <= date_range[2]
    /\ (/\ date_range[1] = series_min(df_received.rows).day
        /\ date_range[2] = series_max(df_received.rows).day)
       => \A k \in Dated(df_received.rows) : Contains(df_filtered, k)

----------------------------------------------------------------------------
(* Properties of the sheet combine (specification SheetSpec) *)

\* the sheet and row each row of the stacked table is expected to come
\* from, the sheets taken in the order of names
RECURSIVE Stacked(_, _)
Stacked(w, names) ==
  IF names = <<>> THEN <<>>
  ELSE [r \in 1..SheetOf(w, Head(names)).nrows |-> [sheet |-> Head(names), row |-> r]]
       \o Stacked(w, Tail(names))

\* row k of the frame holds the data of row o.row of sheet o.sheet and of
\* no other row; a column of the sheet that is itself named Source_Sheet
\* is excepted, its values being replaced by the label
RowCameFrom(w, frame, k, o) ==
  /\ \A c \in 1..Len(frame.columns) :
       frame.rows[k][c].kind = "data" =>
         /\ frame.rows[k][c].sheet = o.sheet
         /\ frame.rows[k][c].row = o.row
  /\ \A i \in 1..Len(SheetOf(w, o.sheet).columns) :
       LET col == SheetOf(w, o.sheet).columns[i]
       IN  col # Source_Sheet =>
             \E c \in 1..Len(frame.columns) :
               /\ frame.columns[c] = strip(col)
               /\ frame.rows[k][c] = DataCell(o.sheet, o.row, col)

\* the columns named Source_Sheet that hold, in every row, the name of the
\* sheet the row is expected to come from
ProvenanceColumns(frame, origins) ==
  { c \in 1..Len(frame.columns) :
      /\ frame.columns[c] = Source_Sheet
      /\ \A k \in 1..Len(frame.rows) : frame.rows[k][c] = LabelCell(origins[k].sheet) }

\* in a combine mode the rows are those of the selected sheets, stacked in
\* the order of selected_sheets, and a Source_Sheet column names each
\* row's sheet
StackedInOrder ==
  LET origins == Stacked(excel_file, selected_sheets)
  IN  /\ Len(df[1].rows) = Len(origins)
      /\ ProvenanceColumns(df[1], origins) # {}
      /\ \A k \in 1..Len(origins) : RowCameFrom(excel_file, df[1], k, origins[k])

\* the order of the sheets the claim names: workbook order for Combine All
\* Sheets, the operator's order for Select Multiple Sheets
SheetOrder ==
  /\ combine_option = "Combine All Sheets" => selected_sheets = sheet_names(excel_file)
  /\ combine_option = "Select Multiple Sheets" => selected_sheets = selection

\* C12, as stated: the normalized table has a column Source_Sheet exactly
\* when the mode is Combine All Sheets or Select Multiple Sheets, never in
\* Select Single Sheet mode; when present, every row's value in it is the
\* name of the row's sheet and the rows are stacked in the order of the
\* sheets.
C12_ProvenanceColumn ==
  (npc = "done") =>
    /\ Contains(df[1].columns, Source_Sheet) <=> combine_option # "Select Single Sheet"
    /\ combine_option # "Select Single Sheet" => (SheetOrder /\ StackedInOrder)

\* C12, amended: the normalizer adds the Source_Sheet column exactly in the
\* two combine modes. In Select Single Sheet mode it adds no column: the
\* table has the chosen sheet's columns (trimmed) and rows, and no cell is
\* a sheet label. In a combine mode a Source_Sheet column holds, in every
\* row, the name of the sheet the row came from, and the rows are stacked
\* in the order of the sheets (workbook order, or the operator's order).
C12_ProvenanceAdded ==
  (npc = "done") =>
    /\ combine_option = "Select Single Sheet" =>
         LET sh == SheetOf(excel_file, selection[1])
         IN  /\ df[1].columns = stripped(sh.columns)
             /\ Len(df[1].rows) = sh.nrows
             /\ \A k \in 1..Len(df[1].rows) : \A c \in 1..Len(df[1].columns) :
                  df[1].rows[k][c] = DataCell(selection[1], k, sh.columns[c])
    /\ combine_option # "Select Single Sheet" => (SheetOrder /\ StackedInOrder)

\* two sheets with rows were combined in the operator's order, which is
\* not the workbook's
C12_Witness ==
  /\ npc = "done"
  /\ combine_option = "Select Multiple Sheets"
  /\ selected_sheets = <<"Feb", "Jan">>
  /\ Len(df[1].rows) = 4
  /\ ProvenanceColumns(df[1], Stacked(excel_file, selected_sheets)) # {}

\* the trimmed column names of the sheets that were combined
TrimmedNames ==
  UNION { { strip(SheetOf(excel_file, selected_sheets[i]).columns[c]) :
              c \in 1..Len(SheetOf(excel_file, selected_sheets[i]).columns) } :
          i \in 1..Len(selected_sheets) }

\* C13: in a combine mode the column names of the normalized table are the
\* set union of the sheets' trimmed column names (and Source_Sheet); no
\* two columns of the table have the same name.
C13_TrimBeforeUnion ==
  (npc = "done" /\ combine_option # "Select Single Sheet") =>
    /\ \A i, j \in 1..Len(df[1].columns) :
         i # j => df[1].columns[i] # df[1].columns[j]
    /\ {df[1].columns[c] : c \in 1..Len(df[1].columns)}
         = TrimmedNames \cup {Source_Sheet}

=============================================================================
